---- MODULE Spec2Model ----
(***************************************************************************)
(* Session coordinator of the AI teacher robot (src/main.py, TeacherGUI):  *)
(* the UI thread's event handlers, the pygame music channel, the worker    *)
(* threads they start and the polling timers that observe the end of       *)
(* playback.  One action is one event handled to completion on the UI      *)
(* thread (a click, a gesture signal, a timer tick, a worker's signal) or  *)
(* one step of a worker thread or of the audio device.                     *)
(*                                                                         *)
(* Every handler is an operator from a snapshot of the state (a record) to *)
(* the snapshot it leaves, so that a handler calling another is the        *)
(* composition the source writes.  What a handler cannot decide itself     *)
(* (whether a file exists, how a bounded wait ends, what the user typed)   *)
(* is a parameter the action draws with \E.                                *)
(*                                                                         *)
(* Left out because no handler reads them: button captions and style       *)
(* sheets, audio_timer and blink_timer (they only repaint a caption),      *)
(* servo angles, the header logo.                                          *)
(***************************************************************************)
EXTENDS Naturals, Sequences, FiniteSets

\* ------------------------------------------------------------------ bounds
MaxQuizLen == 2      \* longest question list a QuizWorker delivers
MaxOrphans == 1      \* worker threads still alive after their reference was dropped
MaxInFlight == 1     \* doubt AIWorkers running at once
MaxVoice == 2        \* VoiceWorkers running at once, the student staying in the lesson
MaxDoubtVoice == 1   \* VoiceWorkers running at once, Back and Quiz Time in use
MaxShots == 1        \* pending QTimer.singleShot(500, next_question) calls
WordBits == 3        \* width of one word of the random generator's output
TicksPerSecond == 2  \* resolution of time.time() in the gesture loop
StartTime == 3       \* time.time() when GestureWorker.run enters its loop
MaxTime == 12        \* the gesture loop is followed up to this time
MaxLoopTime == 3     \* longest one pass of the gesture loop takes, in ticks

\* the audio assets StartupWorker.run checks: 3 closing, 3 opening, 5 win and
\* 5 lose phrases
NumTasks == 16

\* two runs of the program, compared step by step
Runs == {1, 2}
\* entries of opening_phrases and of closing_phrases
NumPhrases == 3
\* entries of win_phrases and of lose_phrases: the most feedback files
\* StartupWorker leaves in sounds/
NumFeedback == 5

VARIABLES
    \* application life cycle: "loading", "running", "crashed", "closed"
    phase,
    \* the disk: sounds/opening_*.mp3 and closing_*.mp3 are all there
    prompts_on_disk,
    \* widgets: shown flags (QWidget.show/hide) and enabled flags
    card_frame, start_btn, start_btn_enabled, status_label, admin_panel,
    result_container, content_widget, quiz_setup_widget,
    quiz_active_container, quiz_result_container, doubt_widget,
    quiz_btn, doubt_btn, voice_btn,
    start_quiz_btn_enabled, options_enabled, quiz_loading_lbl,
    \* TeacherGUI fields
    is_learning_mode, is_quiz_mode, is_listening_active,
    is_audio_paused, is_audio_generating, is_first_chunk,
    current_topic, result_area, last_generated_audio_text,
    quiz_data, current_question_index, score,
    \* pygame.mixer.music: "idle", "playing", "paused", and the file loaded
    mixer, mixer_file,
    \* worker threads
    worker,          \* lesson AIWorker: "none", "running", "finished", "terminated"
    doubt_ai,        \* running doubt AIWorkers
    quiz_worker,     \* self.quiz_worker: "none", "running", "finished", "failed",
                     \* "terminated"
    quiz_orphans,    \* running QuizWorkers whose reference was replaced
    voice,           \* running VoiceWorkers, by the slot connected to 'finished'
    listen_worker,   \* self.listen_worker: "none", "running", "stopping", "finished"
    listen_orphans,  \* running ListenWorkers whose reference was dropped
    \* timers
    opening_timer, resume_timer, close_timer, quiz_wait_timer, next_shots,
    \* history of the run, read by the properties only
    picks,           \* <<index, user_idx>> of every check_answer on quiz_data
    pre_doubt,       \* the open doubt session was entered with the lesson audio
                     \* "playing" or "silent"; "none" when no session is open
    entry_pauses,    \* mixer pause() calls made by the last doubt entry
    exit_unpauses,   \* mixer unpause() calls made by the last close_doubt_session
    voice_text,      \* VoiceWorker.text of the running lesson VoiceWorker, "" if none
    output_mp3,      \* the text whose speech sounds/output.mp3 holds, "" if none
    \* the selections of two runs, side by side
    random_state,    \* by run, the state of the module-level generator of random
    sounds,          \* by run, how many win_exp_*.mp3 and lose_exp_*.mp3 files
                     \* larger than 100 bytes os.listdir('sounds') returns
    selected,        \* by run, the file the last selection picked
    \* GestureWorker.run
    is_running,      \* GestureWorker.is_running
    current_time,    \* time.time() read by the last pass of the loop, in ticks
    last_detect_time,
    frame,           \* what the last pass of the loop saw
    emitted,         \* <<time, gesture>> of every gesture_signal emission
    \* how many VoiceWorker threads a behaviour is followed with at once
    voice_limit,
    \* StartupWorker.run
    startup_pc,      \* "client", "tasks", "emit", "done"
    startup_task,    \* index of the next entry of tasks
    startup_failed,  \* assets whose generation raised
    startup_emitted, \* emissions of StartupWorker.finished
    \* the except clauses of the workers
    err,             \* str(e): the fragments the exception text contains
    reported         \* the worker that caught it and the message it emitted

coordinator_vars == <<phase, prompts_on_disk,
          card_frame, start_btn, start_btn_enabled, status_label, admin_panel,
          result_container, content_widget, quiz_setup_widget,
          quiz_active_container, quiz_result_container, doubt_widget,
          quiz_btn, doubt_btn, voice_btn,
          start_quiz_btn_enabled, options_enabled, quiz_loading_lbl,
          is_learning_mode, is_quiz_mode, is_listening_active,
          is_audio_paused, is_audio_generating, is_first_chunk,
          current_topic, result_area, last_generated_audio_text,
          quiz_data, current_question_index, score,
          mixer, mixer_file,
          worker, doubt_ai, quiz_worker, quiz_orphans, voice,
          listen_worker, listen_orphans,
          opening_timer, resume_timer, close_timer, quiz_wait_timer, next_shots,
          picks, pre_doubt, entry_pauses, exit_unpauses,
          voice_text, output_mp3>>

random_vars == <<random_state, sounds, selected>>

gesture_vars == <<is_running, current_time, last_detect_time, frame, emitted>>

startup_vars == <<startup_pc, startup_task, startup_failed, startup_emitted>>

vars == <<coordinator_vars, random_vars, gesture_vars, voice_limit,
          startup_vars, err, reported>>

\* The state as one record: what a handler reads and what it returns.
Cur ==
    [phase |-> phase, prompts_on_disk |-> prompts_on_disk,
     card_frame |-> card_frame, start_btn |-> start_btn,
     start_btn_enabled |-> start_btn_enabled, status_label |-> status_label,
     admin_panel |-> admin_panel,
     result_container |-> result_container, content_widget |-> content_widget,
     quiz_setup_widget |-> quiz_setup_widget,
     quiz_active_container |-> quiz_active_container,
     quiz_result_container |-> quiz_result_container,
     doubt_widget |-> doubt_widget,
     quiz_btn |-> quiz_btn, doubt_btn |-> doubt_btn, voice_btn |-> voice_btn,
     start_quiz_btn_enabled |-> start_quiz_btn_enabled,
     options_enabled |-> options_enabled, quiz_loading_lbl |-> quiz_loading_lbl,
     is_learning_mode |-> is_learning_mode, is_quiz_mode |-> is_quiz_mode,
     is_listening_active |-> is_listening_active,
     is_audio_paused |-> is_audio_paused,
     is_audio_generating |-> is_audio_generating,
     is_first_chunk |-> is_first_chunk,
     current_topic |-> current_topic, result_area |-> result_area,
     last_generated_audio_text |-> last_generated_audio_text,
     quiz_data |-> quiz_data, current_question_index |-> current_question_index,
     score |-> score,
     mixer |-> mixer, mixer_file |-> mixer_file,
     worker |-> worker, doubt_ai |-> doubt_ai, quiz_worker |-> quiz_worker,
     quiz_orphans |-> quiz_orphans, voice |-> voice,
     listen_worker |-> listen_worker, listen_orphans |-> listen_orphans,
     opening_timer |-> opening_timer, resume_timer |-> resume_timer,
     close_timer |-> close_timer, quiz_wait_timer |-> quiz_wait_timer,
     next_shots |-> next_shots,
     picks |-> picks, pre_doubt |-> pre_doubt, entry_pauses |-> entry_pauses,
     exit_unpauses |-> exit_unpauses,
     voice_text |-> voice_text, output_mp3 |-> output_mp3]

Set(s) ==
    /\ phase' = s.phase
    /\ prompts_on_disk' = s.prompts_on_disk
    /\ card_frame' = s.card_frame
    /\ start_btn' = s.start_btn
    /\ start_btn_enabled' = s.start_btn_enabled
    /\ status_label' = s.status_label
    /\ admin_panel' = s.admin_panel
    /\ result_container' = s.result_container
    /\ content_widget' = s.content_widget
    /\ quiz_setup_widget' = s.quiz_setup_widget
    /\ quiz_active_container' = s.quiz_active_container
    /\ quiz_result_container' = s.quiz_result_container
    /\ doubt_widget' = s.doubt_widget
    /\ quiz_btn' = s.quiz_btn
    /\ doubt_btn' = s.doubt_btn
    /\ voice_btn' = s.voice_btn
    /\ start_quiz_btn_enabled' = s.start_quiz_btn_enabled
    /\ options_enabled' = s.options_enabled
    /\ quiz_loading_lbl' = s.quiz_loading_lbl
    /\ is_learning_mode' = s.is_learning_mode
    /\ is_quiz_mode' = s.is_quiz_mode
    /\ is_listening_active' = s.is_listening_active
    /\ is_audio_paused' = s.is_audio_paused
    /\ is_audio_generating' = s.is_audio_generating
    /\ is_first_chunk' = s.is_first_chunk
    /\ current_topic' = s.current_topic
    /\ result_area' = s.result_area
    /\ last_generated_audio_text' = s.last_generated_audio_text
    /\ quiz_data' = s.quiz_data
    /\ current_question_index' = s.current_question_index
    /\ score' = s.score
    /\ mixer' = s.mixer
    /\ mixer_file' = s.mixer_file
    /\ worker' = s.worker
    /\ doubt_ai' = s.doubt_ai
    /\ quiz_worker' = s.quiz_worker
    /\ quiz_orphans' = s.quiz_orphans
    /\ voice' = s.voice
    /\ listen_worker' = s.listen_worker
    /\ listen_orphans' = s.listen_orphans
    /\ opening_timer' = s.opening_timer
    /\ resume_timer' = s.resume_timer
    /\ close_timer' = s.close_timer
    /\ quiz_wait_timer' = s.quiz_wait_timer
    /\ next_shots' = s.next_shots
    /\ picks' = s.picks
    /\ pre_doubt' = s.pre_doubt
    /\ entry_pauses' = s.entry_pauses
    /\ exit_unpauses' = s.exit_unpauses
    /\ voice_text' = s.voice_text
    /\ output_mp3' = s.output_mp3

\* ------------------------------------------------------------ input sets
Topic == "Photo Synthesis"
Names == {"", "Muni"}
Topics == {"", Topic}
VoiceKinds == {"lesson", "doubt", "opening", "closing"}
Gestures == {"OPEN_DOUBT", "CLOSE_DOUBT", "TOGGLE_ADMIN"}
\* how listen_worker.wait(2000) ends: the thread has exited, or the wait timed
\* out (a turn of the loop lasts up to the 5 s listen timeout, and longer once
\* a phrase has begun)
WaitOutcomes == {"exit", "timeout"}

\* -------------------------------------------------------------- the state
\* TeacherGUI.__init__: the loading screen is up, everything else hidden.
InitState ==
    [phase |-> "loading", prompts_on_disk |-> TRUE,
     card_frame |-> FALSE, start_btn |-> FALSE, start_btn_enabled |-> TRUE,
     status_label |-> FALSE, admin_panel |-> FALSE,
     result_container |-> FALSE, content_widget |-> TRUE,
     quiz_setup_widget |-> FALSE, quiz_active_container |-> FALSE,
     quiz_result_container |-> FALSE, doubt_widget |-> FALSE,
     quiz_btn |-> FALSE, doubt_btn |-> FALSE, voice_btn |-> TRUE,
     start_quiz_btn_enabled |-> TRUE, options_enabled |-> TRUE,
     quiz_loading_lbl |-> "",
     is_learning_mode |-> FALSE, is_quiz_mode |-> FALSE,
     is_listening_active |-> FALSE, is_audio_paused |-> FALSE,
     is_audio_generating |-> FALSE, is_first_chunk |-> FALSE,
     current_topic |-> "", result_area |-> "",
     last_generated_audio_text |-> "",
     quiz_data |-> <<>>, current_question_index |-> 0, score |-> 0,
     mixer |-> "idle", mixer_file |-> "none",
     worker |-> "none", doubt_ai |-> 0, quiz_worker |-> "none",
     quiz_orphans |-> 0, voice |-> [k \in VoiceKinds |-> 0],
     listen_worker |-> "none", listen_orphans |-> 0,
     opening_timer |-> FALSE, resume_timer |-> FALSE, close_timer |-> FALSE,
     quiz_wait_timer |-> FALSE, next_shots |-> 0,
     picks |-> <<>>, pre_doubt |-> "none", entry_pauses |-> 0,
     exit_unpauses |-> 0,
     voice_text |-> "", output_mp3 |-> ""]

\* no worker has caught an exception
NoReport == [worker |-> "none", message |-> ""]

\* StartupWorker before on_app_start starts it
StartupWorkerCreated ==
    /\ startup_pc = "client"
    /\ startup_task = 0
    /\ startup_failed = 0
    /\ startup_emitted = 0

\* the camera gave no image
NoImage == [img |-> FALSE, fingers |-> <<>>]

\* nothing selected yet
NoSelection == [list |-> "none", index |-> 0]

InitCoordinator ==
    /\ phase = InitState.phase
    /\ prompts_on_disk \in BOOLEAN
    /\ card_frame = InitState.card_frame
    /\ start_btn = InitState.start_btn
    /\ start_btn_enabled = InitState.start_btn_enabled
    /\ status_label = InitState.status_label
    /\ admin_panel = InitState.admin_panel
    /\ result_container = InitState.result_container
    /\ content_widget = InitState.content_widget
    /\ quiz_setup_widget = InitState.quiz_setup_widget
    /\ quiz_active_container = InitState.quiz_active_container
    /\ quiz_result_container = InitState.quiz_result_container
    /\ doubt_widget = InitState.doubt_widget
    /\ quiz_btn = InitState.quiz_btn
    /\ doubt_btn = InitState.doubt_btn
    /\ voice_btn = InitState.voice_btn
    /\ start_quiz_btn_enabled = InitState.start_quiz_btn_enabled
    /\ options_enabled = InitState.options_enabled
    /\ quiz_loading_lbl = InitState.quiz_loading_lbl
    /\ is_learning_mode = InitState.is_learning_mode
    /\ is_quiz_mode = InitState.is_quiz_mode
    /\ is_listening_active = InitState.is_listening_active
    /\ is_audio_paused = InitState.is_audio_paused
    /\ is_audio_generating = InitState.is_audio_generating
    /\ is_first_chunk = InitState.is_first_chunk
    /\ current_topic = InitState.current_topic
    /\ result_area = InitState.result_area
    /\ last_generated_audio_text = InitState.last_generated_audio_text
    /\ quiz_data = InitState.quiz_data
    /\ current_question_index = InitState.current_question_index
    /\ score = InitState.score
    /\ mixer = InitState.mixer
    /\ mixer_file = InitState.mixer_file
    /\ worker = InitState.worker
    /\ doubt_ai = InitState.doubt_ai
    /\ quiz_worker = InitState.quiz_worker
    /\ quiz_orphans = InitState.quiz_orphans
    /\ voice = InitState.voice
    /\ listen_worker = InitState.listen_worker
    /\ listen_orphans = InitState.listen_orphans
    /\ opening_timer = InitState.opening_timer
    /\ resume_timer = InitState.resume_timer
    /\ close_timer = InitState.close_timer
    /\ quiz_wait_timer = InitState.quiz_wait_timer
    /\ next_shots = InitState.next_shots
    /\ picks = InitState.picks
    /\ pre_doubt = InitState.pre_doubt
    /\ entry_pauses = InitState.entry_pauses
    /\ exit_unpauses = InitState.exit_unpauses
    /\ voice_text = InitState.voice_text
    /\ output_mp3 = InitState.output_mp3

Init ==
    /\ InitCoordinator
    /\ random_state = [r \in Runs |-> 0]
    /\ sounds = [r \in Runs |-> [win |-> NumFeedback, lose |-> NumFeedback]]
    /\ selected = [r \in Runs |-> NoSelection]
    /\ is_running = TRUE
    /\ current_time = StartTime
    /\ last_detect_time = 0
    /\ frame = NoImage
    /\ emitted = <<>>
    /\ StartupWorkerCreated
    /\ err = {}
    /\ reported = NoReport
    /\ voice_limit = MaxDoubtVoice

\* ------------------------------------------------ pygame.mixer.music
\* get_busy() is False while the music is paused (pygame 2): on_voice_clicked
\* reaches its "PAUSED" branch only that way.
get_busy(s) == s.mixer = "playing"

music_pause(s) == [s EXCEPT !.mixer = IF @ = "playing" THEN "paused" ELSE @]

\* unpause() resumes paused music and does nothing to stopped or playing music
music_unpause(s) == [s EXCEPT !.mixer = IF @ = "paused" THEN "playing" ELSE @]

music_stop(s) == [s EXCEPT !.mixer = "idle", !.mixer_file = "none"]

\* load() replaces whatever was loaded, paused or not; play() starts it
play_audio_file(s, filename) ==
    [s EXCEPT !.mixer = "playing", !.mixer_file = filename]

stop_audio(s) ==
    LET s1 == IF get_busy(s) \/ s.is_audio_paused THEN music_stop(s) ELSE s
    IN  [s1 EXCEPT !.is_audio_paused = FALSE]

\* the lesson audio (sounds/output.mp3) as the channel holds it
LessonAudio(s) == IF s.mixer_file = "output" THEN s.mixer ELSE "stopped"

\* ------------------------------------------------------ process exits
\* An exception that leaves a slot is fatal in PyQt5 (qFatal), and so is the
\* destruction of a QThread object whose thread still runs.
Crashed == [InitState EXCEPT !.phase = "crashed"]

\* ------------------------------------------------------ ListenWorker
ListenerAlive(s) == s.listen_worker \in {"running", "stopping"}

\* ListenWorker.stop: the flag only
ListenWorker_stop(s) ==
    [s EXCEPT !.listen_worker = IF @ = "running" THEN "stopping" ELSE @]

start_listening_worker(s) ==
    IF s.listen_worker # "none" /\ ListenerAlive(s)
    THEN s
    ELSE [s EXCEPT !.listen_worker = "running"]

start_doubt_session(s) ==
    start_listening_worker(
        [s EXCEPT !.is_listening_active = TRUE, !.doubt_widget = TRUE])

\* w: how the bounded wait on a live listener ends (WaitOutcomes)
close_doubt_session(s, w) ==
    LET s1 == stop_audio(s)
        s2 == [s1 EXCEPT !.resume_timer = FALSE, !.close_timer = FALSE,
                         !.opening_timer = FALSE]
        s3 == IF s2.listen_worker = "none" THEN s2
              ELSE IF ~ListenerAlive(s2) THEN [s2 EXCEPT !.listen_worker = "none"]
              ELSE [s2 EXCEPT
                      !.listen_worker = "none",
                      !.listen_orphans = IF w = "timeout" THEN @ + 1 ELSE @]
    IN  [s3 EXCEPT !.is_listening_active = FALSE, !.doubt_widget = FALSE,
                   !.pre_doubt = "none", !.entry_pauses = 0,
                   !.exit_unpauses = 0]

\* the ways the wait can end in state s: a thread that is not running has exited
CanWait(s, w) == ListenerAlive(s) \/ w = "exit"

\* ----------------------------------------------------- doubt session
play_audio_and_listen(s) ==
    [play_audio_file(s, "opening") EXCEPT !.opening_timer = TRUE]

play_audio_and_resume(s) ==
    [play_audio_file(s, "doubt") EXCEPT !.resume_timer = TRUE]

\* the second definition of the name (line 1930) is the one the class keeps
play_audio_and_close(s) ==
    [play_audio_file(s, "closing") EXCEPT !.close_timer = TRUE]

\* the pause a doubt entry makes, counted
pause_for_doubt(s) ==
    IF get_busy(s)
    THEN [music_pause(s) EXCEPT !.is_audio_paused = TRUE,
                                !.entry_pauses = @ + 1]
    ELSE s

\* exists: os.path.exists of the prompt file random.choice picked
play_random_opening_sound(s, exists) ==
    LET s1 == pause_for_doubt(s)
        s2 == [s1 EXCEPT !.doubt_widget = TRUE]
    IN  IF exists THEN play_audio_and_listen(s2)
        ELSE [s2 EXCEPT !.voice["opening"] = @ + 1]

play_random_closing_sound(s, exists) ==
    LET s1 == IF s.listen_worker # "none" THEN ListenWorker_stop(s) ELSE s
    IN  IF exists THEN play_audio_and_close(s1)
        ELSE [s1 EXCEPT !.voice["closing"] = @ + 1]

\* a doubt entry begins: remember what the lesson audio was doing
doubt_entry(s) ==
    [s EXCEPT !.pre_doubt = IF @ # "none" THEN @
                            ELSE IF LessonAudio(s) = "playing" THEN "playing"
                            ELSE "silent",
              !.entry_pauses = 0]

toggle_admin_panel(s) ==
    IF ~s.card_frame THEN [s EXCEPT !.admin_panel = FALSE]
    ELSE [s EXCEPT !.admin_panel = ~@]

handle_gesture(s, action, exists) ==
    IF action = "OPEN_DOUBT"
    THEN IF s.is_learning_mode /\ ~s.is_listening_active
         THEN play_random_opening_sound(pause_for_doubt(doubt_entry(s)), exists)
         ELSE s
    ELSE IF action = "CLOSE_DOUBT"
    THEN IF s.is_listening_active
         THEN play_random_closing_sound(s, exists) ELSE s
    ELSE toggle_admin_panel(s)

on_doubt_clicked(s, exists) ==
    IF s.is_listening_active
    THEN play_random_closing_sound(s, exists)
    ELSE play_random_opening_sound(doubt_entry(s), exists)

check_opening_finished_and_listen(s) ==
    IF ~get_busy(s)
    THEN start_doubt_session([s EXCEPT !.opening_timer = FALSE])
    ELSE s

\* text: "no doubt" (a stop keyword) or "question"
handle_parsed_doubt(s, text, exists) ==
    IF text = "no doubt" THEN play_random_closing_sound(s, exists)
    ELSE LET s1 == IF s.listen_worker # "none" THEN ListenWorker_stop(s) ELSE s
         IN  [s1 EXCEPT !.doubt_ai = @ + 1]

\* text is never empty: AIWorker emits an answer or an error string
play_doubt_audio_response(s) == [s EXCEPT !.voice["doubt"] = @ + 1]

display_doubt_response(s) == play_doubt_audio_response(s)

check_audio_finished_and_listen(s) ==
    IF ~get_busy(s)
    THEN LET s1 == [s EXCEPT !.resume_timer = FALSE]
         IN  IF s1.is_listening_active THEN start_listening_worker(s1) ELSE s1
    ELSE s

check_audio_finished_and_close(s, w) ==
    IF ~get_busy(s)
    THEN close_doubt_session([s EXCEPT !.close_timer = FALSE], w)
    ELSE s

\* ------------------------------------------------------------ lesson
activate_learning_view(s) ==
    [s EXCEPT !.card_frame = FALSE, !.start_btn = FALSE,
              !.admin_panel = FALSE, !.status_label = FALSE,
              !.result_container = TRUE,
              !.result_area = "placeholder",
              !.is_learning_mode = TRUE,
              !.quiz_btn = FALSE, !.doubt_btn = FALSE]

\* QThread.terminate() followed by wait(): the thread is gone on return
terminate_worker(s) ==
    [s EXCEPT !.worker = IF @ = "running" THEN "terminated" ELSE @]

\* on_start_clicked without the check of the fields: the lesson is requested
\* whatever the form holds
on_start_clicked_unchecked(s, name, topic) ==
    LET s1 == [s EXCEPT !.start_btn_enabled = FALSE,
                        !.current_topic = topic,
                        !.is_learning_mode = FALSE,
                        !.is_first_chunk = TRUE,
                        !.result_area = ""]
        s2 == [terminate_worker(s1) EXCEPT !.worker = "running"]
    IN  activate_learning_view(s2)

\* on_start_clicked with a cache keyed by the topic: a lesson already generated
\* for the topic is shown again and no AIWorker is started
on_start_clicked_cached(s, name, topic) ==
    IF name = "" \/ topic = ""
    THEN [s EXCEPT !.status_label = TRUE]
    ELSE IF topic = s.current_topic /\ s.worker = "finished"
    THEN [activate_learning_view(
             [s EXCEPT !.start_btn_enabled = FALSE, !.is_learning_mode = FALSE])
            EXCEPT !.result_area = s.result_area,
                   !.quiz_btn = TRUE, !.doubt_btn = TRUE]
    ELSE LET s1 == [s EXCEPT !.start_btn_enabled = FALSE,
                             !.current_topic = topic,
                             !.is_learning_mode = FALSE,
                             !.is_first_chunk = TRUE,
                             !.result_area = ""]
             s2 == [s1 EXCEPT !.worker = "running"]
         IN  activate_learning_view(s2)

\* name, topic: the trimmed line edits; the three combo boxes are never empty
on_start_clicked(s, name, topic) ==
    IF name = "" \/ topic = ""
    THEN [s EXCEPT !.status_label = TRUE]
    ELSE LET s1 == [s EXCEPT !.start_btn_enabled = FALSE,
                             !.current_topic = topic,
                             !.is_learning_mode = FALSE,
                             !.is_first_chunk = TRUE,
                             !.result_area = ""]
             s2 == [terminate_worker(s1) EXCEPT !.worker = "running"]
         IN  activate_learning_view(s2)

\* text: "lesson" or "error" (an "Error: ..." string); toPlainText() of the
\* area afterwards is the text alone when this is the first chunk
update_text_area(s, text) ==
    IF s.is_first_chunk
    THEN [s EXCEPT !.result_area = text, !.is_first_chunk = FALSE]
    ELSE [s EXCEPT !.result_area = "appended"]

on_generation_finished(s) ==
    IF s.is_learning_mode
    THEN [s EXCEPT !.quiz_btn = TRUE, !.doubt_btn = TRUE]
    ELSE s

\* QWidget.isVisible(): shown, and so is the container it sits in
isVisible(s, widget) == s.result_container /\ s[widget]

\* on_back_clicked without the navigation inside the quiz: Back always leads
\* to the setup form
on_back_clicked_to_form(s, w) ==
    LET s1 == close_doubt_session(stop_audio(s), w)
    IN  [terminate_worker([s1 EXCEPT !.result_container = FALSE,
                                     !.is_learning_mode = FALSE])
           EXCEPT !.card_frame = TRUE, !.start_btn = TRUE,
                  !.start_btn_enabled = TRUE]

on_back_clicked(s, w) ==
    LET s1 == close_doubt_session(stop_audio(s), w)
    IN  IF s1.is_quiz_mode /\ (\/ isVisible(s1, "quiz_active_container")
                               \/ isVisible(s1, "quiz_result_container"))
        THEN [s1 EXCEPT !.quiz_active_container = FALSE,
                        !.quiz_result_container = FALSE,
                        !.quiz_setup_widget = TRUE,
                        !.start_quiz_btn_enabled = TRUE]
        ELSE IF s1.is_quiz_mode /\ isVisible(s1, "quiz_setup_widget")
        THEN [s1 EXCEPT !.is_quiz_mode = FALSE,
                        !.quiz_setup_widget = FALSE,
                        !.content_widget = TRUE,
                        !.doubt_widget = s1.is_listening_active,
                        !.quiz_btn = TRUE, !.doubt_btn = TRUE,
                        !.voice_btn = TRUE]
        ELSE [terminate_worker([s1 EXCEPT !.result_container = FALSE,
                                          !.is_learning_mode = FALSE])
                EXCEPT !.card_frame = TRUE, !.start_btn = TRUE,
                       !.start_btn_enabled = TRUE]

\* -------------------------------------------------------------- quiz
on_quiz_clicked(s, w) ==
    LET s1 == close_doubt_session(stop_audio(s), w)
    IN  [s1 EXCEPT !.voice_btn = FALSE, !.doubt_btn = FALSE,
                   !.is_quiz_mode = TRUE,
                   !.content_widget = FALSE, !.quiz_btn = FALSE,
                   !.quiz_setup_widget = TRUE]

on_start_quiz_clicked(s) ==
    [s EXCEPT !.quiz_loading_lbl = "Generating Questions... Please wait.",
              !.start_quiz_btn_enabled = FALSE,
              !.quiz_orphans = IF s.quiz_worker = "running" THEN @ + 1 ELSE @,
              !.quiz_worker = "running"]

\* quiz_data[current_question_index] raises IndexError past the end
show_question(s) ==
    IF s.current_question_index < Len(s.quiz_data)
    THEN [s EXCEPT !.quiz_active_container = TRUE, !.options_enabled = TRUE]
    ELSE Crashed

\* score / total raises ZeroDivisionError for an empty list
show_results(s) ==
    IF Len(s.quiz_data) = 0 THEN Crashed
    ELSE [s EXCEPT !.quiz_active_container = FALSE,
                   !.quiz_result_container = TRUE]

\* data: the 'answer' index of each question delivered
on_quiz_ready(s, data) ==
    show_question([s EXCEPT !.quiz_data = data,
                            !.current_question_index = 0,
                            !.score = 0,
                            !.picks = <<>>,
                            !.quiz_loading_lbl = "",
                            !.quiz_setup_widget = FALSE])

next_question(s) ==
    LET s1 == [s EXCEPT !.current_question_index = @ + 1]
    IN  IF s1.current_question_index < Len(s1.quiz_data)
        THEN show_question(s1)
        ELSE show_results(s1)

\* check_answer with the score incremented outside the comparison
check_answer_scores_every_pick(s, user_idx, has_audio) ==
    IF ~(s.current_question_index < Len(s.quiz_data)) THEN Crashed
    ELSE
    LET s1 == [s EXCEPT !.options_enabled = FALSE,
                        !.score = @ + 1,
                        !.picks = Append(@, <<s.current_question_index, user_idx>>)]
    IN  IF has_audio
        THEN [play_audio_file(s1, "feedback") EXCEPT !.quiz_wait_timer = TRUE]
        ELSE [s1 EXCEPT !.next_shots = @ + 1]

\* has_audio: a win_exp_/lose_exp_ file of more than 100 bytes is in sounds/
check_answer(s, user_idx, has_audio) ==
    IF ~(s.current_question_index < Len(s.quiz_data)) THEN Crashed
    ELSE
    LET correct_idx == s.quiz_data[s.current_question_index + 1]
        s1 == [s EXCEPT !.options_enabled = FALSE,
                        !.score = IF user_idx = correct_idx THEN @ + 1 ELSE @,
                        !.picks = Append(@, <<s.current_question_index, user_idx>>)]
    IN  IF has_audio
        THEN [play_audio_file(s1, "feedback") EXCEPT !.quiz_wait_timer = TRUE]
        ELSE [s1 EXCEPT !.next_shots = @ + 1]

check_quiz_audio_finished(s) ==
    IF ~get_busy(s)
    THEN next_question([s EXCEPT !.quiz_wait_timer = FALSE])
    ELSE s

\* ------------------------------------------------------ lesson voice
on_voice_clicked(s) ==
    IF s.is_audio_generating THEN s
    ELSE IF get_busy(s)
    THEN [music_pause(s) EXCEPT !.is_audio_paused = TRUE]
    ELSE IF s.is_audio_paused
    THEN [music_unpause(s) EXCEPT !.is_audio_paused = FALSE]
    ELSE IF s.result_area = "" THEN s
    ELSE IF s.last_generated_audio_text = s.result_area
    THEN play_audio_file(s, "output")
    ELSE [s EXCEPT !.is_audio_generating = TRUE, !.voice["lesson"] = @ + 1,
                   !.voice_text = s.result_area]

on_audio_generated(s) ==
    play_audio_file([s EXCEPT !.is_audio_generating = FALSE,
                              !.last_generated_audio_text = s.result_area],
                    "output")

on_audio_error(s) == [s EXCEPT !.is_audio_generating = FALSE]

\* ------------------------------------------------------------- exit
closeEvent(s, w) ==
    LET s1 == close_doubt_session(stop_audio(s), w)
        s2 == terminate_worker([s1 EXCEPT !.quiz_wait_timer = FALSE])
    IN  [s2 EXCEPT !.quiz_worker = IF @ = "running" THEN "terminated" ELSE @,
                   !.phase = "closed"]

on_loading_finished(s) ==
    [s EXCEPT !.phase = "running", !.card_frame = TRUE, !.start_btn = TRUE]

\* ----------------------------------------------------------- actions
Live == phase \in {"loading", "running"}

VoiceRunning(s) ==
    s.voice["lesson"] + s.voice["doubt"] + s.voice["opening"] + s.voice["closing"]

InBounds(s) ==
    /\ s.doubt_ai <= MaxInFlight
    /\ VoiceRunning(s) <= voice_limit
    /\ s.quiz_orphans <= MaxOrphans
    /\ s.listen_orphans <= MaxOrphans
    /\ s.next_shots <= MaxShots

\* os.path.exists of the prompt file random.choice picked: StartupWorker left
\* all of them on disk, or some are missing
Exists == IF prompts_on_disk THEN {TRUE} ELSE BOOLEAN

\* one event handled to completion
Do(s) ==
    /\ Live /\ InBounds(s) /\ Set(s)
    /\ UNCHANGED <<random_vars, gesture_vars, voice_limit, startup_vars,
                   err, reported>>

\* sequences over S of length at most n
RECURSIVE SeqsUpTo(_, _)
SeqsUpTo(S, n) ==
    IF n = 0 THEN {<<>>}
    ELSE LET shorter == SeqsUpTo(S, n - 1)
         IN  shorter \cup {Append(q, x) : q \in shorter, x \in S}

\* the option indices recorded as answers and clicked: two of the four tell a
\* right pick from a wrong one
Picks == {0, 1}
QuizLists == SeqsUpTo(Picks, MaxQuizLen)

LoadingFinished == phase = "loading" /\ Do(on_loading_finished(Cur))

ClickStart ==
    /\ start_btn /\ start_btn_enabled
    /\ \E name \in Names, topic \in Topics : Do(on_start_clicked(Cur, name, topic))

ClickBack ==
    /\ result_container
    /\ \E w \in WaitOutcomes : CanWait(Cur, w) /\ Do(on_back_clicked(Cur, w))

ClickVoice == result_container /\ voice_btn /\ Do(on_voice_clicked(Cur))

ClickDoubt ==
    /\ result_container /\ doubt_btn
    /\ \E exists \in Exists : Do(on_doubt_clicked(Cur, exists))

ClickQuiz ==
    /\ result_container /\ quiz_btn
    /\ \E w \in WaitOutcomes : CanWait(Cur, w) /\ Do(on_quiz_clicked(Cur, w))

ClickStartQuiz ==
    /\ isVisible(Cur, "quiz_setup_widget") /\ start_quiz_btn_enabled
    /\ Do(on_start_quiz_clicked(Cur))

ClickOption ==
    /\ isVisible(Cur, "quiz_active_container") /\ options_enabled
    /\ \E user_idx \in Picks, has_audio \in BOOLEAN :
          Do(check_answer(Cur, user_idx, has_audio))

\* GestureWorker runs from construction on and may signal at any time
Gesture ==
    \E action \in Gestures, exists \in Exists :
        Do(handle_gesture(Cur, action, exists))

\* the window closes and the process exits: what is left to observe is how
\* closeEvent ended the two workers it terminates
CloseWindow ==
    LET s1 == closeEvent(Cur, "exit")
    IN  Do([InitState EXCEPT !.phase = s1.phase, !.worker = s1.worker,
                             !.quiz_worker = s1.quiz_worker,
                             !.prompts_on_disk = s1.prompts_on_disk])

\* --- timers
OpeningTimerTick == opening_timer /\ Do(check_opening_finished_and_listen(Cur))

ResumeTimerTick == resume_timer /\ Do(check_audio_finished_and_listen(Cur))

CloseTimerTick ==
    /\ close_timer
    /\ \E w \in WaitOutcomes :
          CanWait(Cur, w) /\ Do(check_audio_finished_and_close(Cur, w))

QuizWaitTimerTick == quiz_wait_timer /\ Do(check_quiz_audio_finished(Cur))

SingleShotFires ==
    /\ next_shots > 0
    /\ Do(next_question([Cur EXCEPT !.next_shots = @ - 1]))

\* --- the audio device: the track reaches its end
AudioEnds == mixer = "playing" /\ Do(music_stop(Cur))

\* --- the worker threads' run(): the signals one run emits, in order, for
\* each way the API call can end
Signal(name, arg) == [name |-> name, arg |-> arg]

\* generate_content returns a text, returns no text, or raises
AIReplies == {"text", "empty", "raises"}

\* what: "lesson" or "answer", the text a successful call carries
AIWorker_run(reply, what) ==
    CASE reply = "text" -> <<Signal("text_received", what), Signal("finished", "")>>
      [] reply = "empty" -> <<Signal("finished", "")>>
      [] reply = "raises" ->
            <<Signal("text_received", "error"), Signal("finished", "")>>

\* the lesson AIWorker's connections: text_received -> update_text_area,
\* finished -> on_generation_finished
RECURSIVE LessonSlots(_, _)
LessonSlots(s, signals) ==
    IF signals = <<>> THEN s
    ELSE LET sig == Head(signals)
             s1 == IF sig.name = "text_received"
                   THEN update_text_area(s, sig.arg)
                   ELSE on_generation_finished(s)
         IN  LessonSlots(s1, Tail(signals))

\* the doubt AIWorker's connection: text_received -> display_doubt_response
RECURSIVE DoubtSlots(_, _)
DoubtSlots(s, signals) ==
    IF signals = <<>> THEN s
    ELSE LET sig == Head(signals)
             s1 == IF sig.name = "text_received"
                   THEN display_doubt_response(s)
                   ELSE s
         IN  DoubtSlots(s1, Tail(signals))

\* --- AIWorker.run for the lesson
LessonWorkerEnds(reply) ==
    /\ worker = "running"
    /\ Do(LessonSlots([Cur EXCEPT !.worker = "finished"],
                      AIWorker_run(reply, "lesson")))

LessonWorkerDone == \E reply \in AIReplies : LessonWorkerEnds(reply)

\* --- AIWorker.run for a doubt
DoubtWorkerEnds(reply) ==
    /\ doubt_ai > 0
    /\ Do(DoubtSlots([Cur EXCEPT !.doubt_ai = @ - 1],
                     AIWorker_run(reply, "answer")))

DoubtWorkerDone == \E reply \in AIReplies : DoubtWorkerEnds(reply)

\* --- QuizWorker.run.  The reply parses to a list of questions (data: their
\* 'answer' indices), or the call or json.loads raises
QuizReplies ==
    {[kind |-> "list", data |-> d] : d \in QuizLists}
        \cup {[kind |-> "raises", data |-> <<>>]}

QuizWorker_run(reply) ==
    IF reply.kind = "list" THEN <<Signal("data_received", reply.data)>>
    ELSE <<Signal("error_occurred", "error")>>

\* the QuizWorker's connection: data_received -> on_quiz_ready;
\* error_occurred has no slot
RECURSIVE QuizSlots(_, _)
QuizSlots(s, signals) ==
    IF signals = <<>> THEN s
    ELSE LET sig == Head(signals)
             s1 == IF sig.name = "data_received"
                   THEN on_quiz_ready(s, sig.arg)
                   ELSE s
         IN  QuizSlots(s1, Tail(signals))

QuizWorkerEnds(reply) ==
    /\ quiz_worker = "running"
    /\ Do(QuizSlots([Cur EXCEPT !.quiz_worker =
                                  IF reply.kind = "list" THEN "finished"
                                  ELSE "failed"],
                    QuizWorker_run(reply)))

QuizWorkerDone == \E reply \in QuizReplies : QuizWorkerEnds(reply)

QuizOrphanDone ==
    /\ quiz_orphans > 0
    /\ \E reply \in QuizReplies :
          Do(QuizSlots([Cur EXCEPT !.quiz_orphans = @ - 1],
                       QuizWorker_run(reply)))

\* --- VoiceWorker.run: 'finished' goes to the slot connected at its start;
\* 'error_occurred' has a slot for the lesson audio only
VoiceFinished(s, kind) ==
    CASE kind = "lesson" -> on_audio_generated(s)
      [] kind = "doubt" -> play_audio_and_resume(s)
      [] kind = "opening" -> play_audio_and_listen(s)
      [] kind = "closing" -> play_audio_and_close(s)

\* text_to_speech.convert and the file write succeed, or one of them raises
VoiceReplies == {"audio", "raises"}

VoiceWorker_run(reply) ==
    IF reply = "audio" THEN <<Signal("finished", "")>>
    ELSE <<Signal("error_occurred", "error")>>

RECURSIVE VoiceSlots(_, _, _)
VoiceSlots(s, kind, signals) ==
    IF signals = <<>> THEN s
    ELSE LET sig == Head(signals)
             s1 == IF sig.name = "finished" THEN VoiceFinished(s, kind)
                   ELSE IF kind = "lesson" THEN on_audio_error(s)
                   ELSE s
         IN  VoiceSlots(s1, kind, Tail(signals))

\* the file the worker wrote before it emitted 'finished'
VoiceWorker_writes(s, kind, reply) ==
    IF kind # "lesson" THEN s
    ELSE [s EXCEPT !.output_mp3 = IF reply = "audio" THEN s.voice_text ELSE @,
                   !.voice_text = ""]

VoiceWorkerEnds(kind, reply) ==
    /\ voice[kind] > 0
    /\ Do(VoiceSlots(VoiceWorker_writes([Cur EXCEPT !.voice[kind] = @ - 1],
                                        kind, reply),
                     kind, VoiceWorker_run(reply)))

VoiceWorkerDone ==
    \E kind \in VoiceKinds, reply \in VoiceReplies : VoiceWorkerEnds(kind, reply)

\* --- ListenWorker.run: one turn of the loop.  The flag is read at the top
\* of the loop only, so a stopped worker finishes the turn it is in.  A
\* recognised text is taken to its slot, handle_parsed_doubt, in the same step.
\* text: "no doubt" (a stop keyword) or "question"
ListenWorkerHears ==
    /\ ListenerAlive(Cur)
    /\ \E text \in {"no doubt", "question"}, exists \in Exists :
          /\ text = "question" => exists
          /\ Do(handle_parsed_doubt(
                  [Cur EXCEPT !.listen_worker =
                                 IF @ = "stopping" THEN "finished" ELSE @],
                  text, exists))

\* timeout, unintelligible audio or a request error: back to the loop test
ListenWorkerLoops ==
    /\ listen_worker = "stopping"
    /\ Do([Cur EXCEPT !.listen_worker = "finished"])

\* the microphone cannot be opened, or fails
ListenWorkerFails ==
    /\ listen_worker = "running"
    /\ Do([Cur EXCEPT !.listen_worker = "finished"])

\* a worker whose reference was dropped had been stopped: its turn is its last
OrphanListenerHears ==
    /\ listen_orphans > 0
    /\ \E text \in {"no doubt", "question"}, exists \in Exists :
          /\ text = "question" => exists
          /\ Do(handle_parsed_doubt([Cur EXCEPT !.listen_orphans = @ - 1],
                                    text, exists))

OrphanListenerExits ==
    /\ listen_orphans > 0
    /\ Do([Cur EXCEPT !.listen_orphans = @ - 1])

\* the QThread object of a dropped worker is destroyed while its thread runs
Abort ==
    /\ listen_orphans > 0 \/ quiz_orphans > 0
    /\ Do(Crashed)

Next ==
    \/ LoadingFinished
    \/ ClickStart \/ ClickBack \/ ClickVoice \/ ClickDoubt \/ ClickQuiz
    \/ ClickStartQuiz \/ ClickOption \/ Gesture \/ CloseWindow
    \/ OpeningTimerTick \/ ResumeTimerTick \/ CloseTimerTick
    \/ QuizWaitTimerTick \/ SingleShotFires
    \/ AudioEnds
    \/ LessonWorkerDone \/ DoubtWorkerDone \/ QuizWorkerDone \/ QuizOrphanDone
    \/ VoiceWorkerDone
    \/ ListenWorkerHears \/ ListenWorkerLoops \/ ListenWorkerFails
    \/ OrphanListenerHears \/ OrphanListenerExits
    \/ Abort

Spec == Init /\ [][Next]_vars

\* The coordinator with the student using the lesson, its audio and the doubt
\* session only (Quiz Time can be pressed, no quiz is generated or answered),
\* and with every prompt file on disk.
NextDoubt ==
    \/ LoadingFinished
    \/ ClickStart \/ ClickBack \/ ClickVoice \/ ClickDoubt \/ ClickQuiz
    \/ Gesture \/ CloseWindow
    \/ OpeningTimerTick \/ ResumeTimerTick \/ CloseTimerTick
    \/ AudioEnds
    \/ LessonWorkerDone \/ DoubtWorkerDone \/ VoiceWorkerDone
    \/ ListenWorkerHears \/ ListenWorkerLoops \/ ListenWorkerFails
    \/ OrphanListenerHears \/ OrphanListenerExits
    \/ Abort

\* StartupWorker found or generated every prompt file
InitPrompts == Init /\ prompts_on_disk = TRUE

\* VoiceWorker threads whose run() has not returned
VoiceWorkersRunning ==
    voice["lesson"] + voice["doubt"] + voice["opening"] + voice["closing"]

SpecDoubt == InitPrompts /\ [][NextDoubt]_vars

\* The coordinator with the student staying in the lesson view: the lesson,
\* its audio and the doubt session, with no Back, no Quiz Time and the window
\* left open.
NextVoice ==
    \/ LoadingFinished
    \/ ClickStart \/ ClickVoice \/ ClickDoubt \/ Gesture
    \/ OpeningTimerTick \/ ResumeTimerTick \/ CloseTimerTick
    \/ AudioEnds
    \/ LessonWorkerDone \/ DoubtWorkerDone \/ VoiceWorkerDone
    \/ ListenWorkerHears \/ ListenWorkerLoops \/ ListenWorkerFails
    \/ OrphanListenerHears \/ OrphanListenerExits

InitVoice ==
    /\ InitCoordinator
    /\ prompts_on_disk = TRUE
    /\ random_state = [r \in Runs |-> 0]
    /\ sounds = [r \in Runs |-> [win |-> NumFeedback, lose |-> NumFeedback]]
    /\ selected = [r \in Runs |-> NoSelection]
    /\ is_running = TRUE
    /\ current_time = StartTime
    /\ last_detect_time = 0
    /\ frame = NoImage
    /\ emitted = <<>>
    /\ StartupWorkerCreated
    /\ err = {}
    /\ reported = NoReport
    /\ voice_limit = MaxVoice

SpecVoice == InitVoice /\ [][NextVoice]_vars

\* The coordinator with the student using the lesson and the quiz only: no
\* gesture, no lesson audio, no doubt session.
NextQuiz ==
    \/ LoadingFinished
    \/ ClickStart \/ ClickBack \/ ClickQuiz \/ ClickStartQuiz \/ ClickOption
    \/ CloseWindow
    \/ QuizWaitTimerTick \/ SingleShotFires
    \/ AudioEnds
    \/ LessonWorkerDone \/ QuizWorkerDone \/ QuizOrphanDone
    \/ Abort

SpecQuiz == InitPrompts /\ [][NextQuiz]_vars

\* ------------------------------------------------- the random selections
\* The module-level generator of random, which the program never seeds
\* itself: a stream of WordBits-bit words, here a full-period congruential
\* sequence.  getrandbits(k) takes the top k bits of the next word.
Words == 2 ^ WordBits

twist(x) == (5 * x + 3) % Words

getrandbits(x, k) == x \div (2 ^ (WordBits - k))

RECURSIVE bit_length(_)
bit_length(n) == IF n = 0 THEN 0 ELSE 1 + bit_length(n \div 2)

\* Random._randbelow: draw bit_length(n) bits until the value is below n
RECURSIVE randbelow(_, _)
randbelow(x, n) ==
    LET r == getrandbits(x, bit_length(n))
    IN  IF r < n THEN [value |-> r, state |-> twist(x)]
        ELSE randbelow(twist(x), n)

\* random.choice(seq) of a sequence of n entries: seq[_randbelow(n)]
random_choice(x, n) == randbelow(x, n)

\* msg = random.choice(opening_phrases); sounds/opening_{index}.mp3
select_opening(x) ==
    LET c == random_choice(x, NumPhrases)
    IN  [state |-> c.state, file |-> [list |-> "opening", index |-> c.value]]

\* msg = random.choice(closing_phrases); sounds/closing_{index}.mp3
select_closing(x) ==
    LET c == random_choice(x, NumPhrases)
    IN  [state |-> c.state, file |-> [list |-> "closing", index |-> c.value]]

\* check_answer: files_list is the listing of sounds/ filtered by the prefix
\* of the outcome; random.choice is called only when it is not empty
select_feedback(x, listing, correct) ==
    LET prefix == IF correct THEN "win_exp" ELSE "lose_exp"
        n == IF correct THEN listing.win ELSE listing.lose
        c == random_choice(x, n)
    IN  IF n > 0
        THEN [state |-> c.state, file |-> [list |-> prefix, index |-> c.value]]
        ELSE [state |-> x, file |-> NoSelection]

\* the same user event in both runs; select[r] is what run r selects
BothRuns(select) ==
    /\ random_state' = [r \in Runs |-> select[r].state]
    /\ selected' = [r \in Runs |-> select[r].file]
    /\ UNCHANGED <<coordinator_vars, sounds, gesture_vars, voice_limit,
                   startup_vars, err, reported>>

OpeningSelected ==
    BothRuns([r \in Runs |-> select_opening(random_state[r])])

ClosingSelected ==
    BothRuns([r \in Runs |-> select_closing(random_state[r])])

FeedbackSelected ==
    \E correct \in BOOLEAN :
        BothRuns([r \in Runs |->
                    select_feedback(random_state[r], sounds[r], correct)])

NextRandom == OpeningSelected \/ ClosingSelected \/ FeedbackSelected

FeedbackFiles == [win : 0..NumFeedback, lose : 0..NumFeedback]

\* Two runs started from the same seed, each with the sounds/ directory its
\* StartupWorker managed to fill.
InitRandom ==
    /\ InitCoordinator
    /\ prompts_on_disk = TRUE
    /\ \E seed \in 0..(Words - 1) : random_state = [r \in Runs |-> seed]
    /\ sounds \in [Runs -> FeedbackFiles]
    /\ selected = [r \in Runs |-> NoSelection]
    /\ is_running = TRUE
    /\ current_time = StartTime
    /\ last_detect_time = 0
    /\ frame = NoImage
    /\ emitted = <<>>
    /\ StartupWorkerCreated
    /\ err = {}
    /\ reported = NoReport
    /\ voice_limit = MaxDoubtVoice

SpecRandom == InitRandom /\ [][NextRandom]_vars

\* ----------------------------------------------------- GestureWorker.run
\* cooldown = 1.0
cooldown == TicksPerSecond

\* fingersUp(hand) of the first hand found; <<>> when findHands found none
Fingers == {<<1, 1, 1, 1, 1>>, <<0, 1, 1, 0, 0>>, <<0, 1, 1, 1, 0>>,
            <<0, 1, 0, 0, 0>>, <<0, 0, 0, 0, 0>>, <<>>}

Frames == {NoImage} \cup {[img |-> TRUE, fingers |-> f] : f \in Fingers}

\* the gesture a finger pattern stands for, "" for any other pattern
Pattern(fingers) ==
    CASE fingers = <<1, 1, 1, 1, 1>> -> "OPEN_DOUBT"
      [] fingers = <<0, 1, 1, 0, 0>> -> "CLOSE_DOUBT"
      [] fingers = <<0, 1, 1, 1, 0>> -> "TOGGLE_ADMIN"
      [] OTHER -> ""

\* The pass with a cooldown that also lets a frame exactly 1.0 s after the
\* last emission through.
GestureWorker_pass_inclusive(g, now, f) ==
    IF f.img /\ f.fingers # <<>>
       /\ now - g.last_detect_time >= cooldown
       /\ Pattern(f.fingers) # ""
    THEN [last_detect_time |-> now,
          emitted |-> Append(g.emitted, <<now, Pattern(f.fingers)>>)]
    ELSE g

\* One pass of the while loop that reads the clock at time now and sees
\* frame f: g is <<last_detect_time, emitted>> as a record.
GestureWorker_pass(g, now, f) ==
    IF f.img /\ f.fingers # <<>>
       /\ now - g.last_detect_time > cooldown
       /\ Pattern(f.fingers) # ""
    THEN [last_detect_time |-> now,
          emitted |-> Append(g.emitted, <<now, Pattern(f.fingers)>>)]
    ELSE g

GestureWorkerLoops ==
    /\ is_running
    /\ \E dt \in 1..MaxLoopTime, f \in Frames :
          LET now == current_time + dt
              g == GestureWorker_pass([last_detect_time |-> last_detect_time,
                                       emitted |-> emitted], now, f)
          IN  /\ now <= MaxTime
              /\ current_time' = now
              /\ frame' = f
              /\ last_detect_time' = g.last_detect_time
              /\ emitted' = g.emitted
    /\ UNCHANGED <<coordinator_vars, random_vars, is_running, voice_limit,
                   startup_vars, err, reported>>

\* GestureWorker.stop(): the loop ends at its next test
GestureWorkerStops ==
    /\ is_running
    /\ is_running' = FALSE
    /\ UNCHANGED <<coordinator_vars, random_vars, current_time,
                   last_detect_time, frame, emitted, voice_limit,
                   startup_vars, err, reported>>

NextGesture == GestureWorkerLoops \/ GestureWorkerStops

SpecGesture == InitPrompts /\ [][NextGesture]_vars

\* ----------------------------------------------------- StartupWorker.run
\* "verified": the file is there with 100 bytes or more; "generated": it was
\* requested and written; "fails": the request or the write raised inside the
\* inner try; "raises": the test of the file itself raised, outside it
TaskOutcomes == {"verified", "generated", "fails", "raises"}

\* One step of run() with an exception of the inner try leaving the loop and
\* the method: the asset's failure ends the run before 'finished'.
StartupWorker_step_unguarded(st, outcome) ==
    CASE st.pc = "client" ->
           IF outcome = "raises" THEN [st EXCEPT !.pc = "emit"]
           ELSE [st EXCEPT !.pc = IF NumTasks = 0 THEN "emit" ELSE "tasks"]
      [] st.pc = "tasks" ->
           IF outcome = "raises" THEN [st EXCEPT !.pc = "emit"]
           ELSE IF outcome = "fails"
           THEN [st EXCEPT !.pc = "done", !.failed = @ + 1]
           ELSE [st EXCEPT !.task = @ + 1,
                           !.pc = IF st.task + 1 = NumTasks THEN "emit" ELSE "tasks"]
      [] OTHER -> st

\* One step of run(): the ElevenLabs client is created, or one entry of tasks
\* is handled.  An exception of the inner try is printed and the loop goes
\* on; any other exception is printed by the outer handler; 'finished' is
\* emitted after it.
StartupWorker_step(st, outcome) ==
    CASE st.pc = "client" ->
           IF outcome = "raises" THEN [st EXCEPT !.pc = "emit"]
           ELSE [st EXCEPT !.pc = IF NumTasks = 0 THEN "emit" ELSE "tasks"]
      [] st.pc = "tasks" ->
           IF outcome = "raises" THEN [st EXCEPT !.pc = "emit"]
           ELSE [st EXCEPT !.task = @ + 1,
                           !.failed = IF outcome = "fails" THEN @ + 1 ELSE @,
                           !.pc = IF st.task + 1 = NumTasks THEN "emit" ELSE "tasks"]
      [] OTHER -> st

StartupWorkerSteps ==
    /\ startup_pc \in {"client", "tasks"}
    /\ \E outcome \in TaskOutcomes :
          LET st == StartupWorker_step([pc |-> startup_pc, task |-> startup_task,
                                       failed |-> startup_failed], outcome)
          IN  /\ startup_pc' = st.pc
              /\ startup_task' = st.task
              /\ startup_failed' = st.failed
    /\ UNCHANGED <<coordinator_vars, random_vars, gesture_vars, voice_limit,
                   startup_emitted, err, reported>>

\* self.finished.emit(), taken to its slot on_loading_finished
StartupWorkerEmits ==
    /\ startup_pc = "emit"
    /\ startup_pc' = "done"
    /\ startup_emitted' = startup_emitted + 1
    /\ Set(on_loading_finished(Cur))
    /\ UNCHANGED <<random_vars, gesture_vars, voice_limit, startup_task,
                   startup_failed, err, reported>>

NextStartup == StartupWorkerSteps \/ StartupWorkerEmits

\* the thread is scheduled and the event loop delivers the queued signal
SpecStartup ==
    /\ Init
    /\ [][NextStartup]_vars
    /\ WF_vars(StartupWorkerSteps) /\ WF_vars(StartupWorkerEmits)

\* ------------------------------------------- the workers' except clauses
\* The text of an exception, str(e), as the set of the fragments it contains
\* among those the handlers look for, in the spellings an API may use.
Fragments == {"RESOURCE_EXHAUSTED", "429", "API key", "401",
              "quota", "Quota", "QUOTA"}

\* err.lower(): every fragment of the text in lower case
lower(text) ==
    LET lower_fragment(f) ==
            CASE f \in {"quota", "Quota", "QUOTA"} -> "quota"
              [] f = "RESOURCE_EXHAUSTED" -> "resource_exhausted"
              [] f = "API key" -> "api key"
              [] OTHER -> f
    IN  {lower_fragment(f) : f \in text}

\* AIWorker.run with the test of the API key made first
AIWorker_except_key_first(e) ==
    IF "API key" \in e \/ "401" \in e
    THEN "Error: Invalid Gemini API Key."
    ELSE IF "RESOURCE_EXHAUSTED" \in e \/ "429" \in e
    THEN "Error: Gemini API Quota Exceeded. Try again later."
    ELSE "Error: Failed to generate content."

\* AIWorker.run, except clause: the string emitted through text_received
AIWorker_except(e) ==
    IF "RESOURCE_EXHAUSTED" \in e \/ "429" \in e
    THEN "Error: Gemini API Quota Exceeded. Try again later."
    ELSE IF "API key" \in e \/ "401" \in e
    THEN "Error: Invalid Gemini API Key."
    ELSE "Error: Failed to generate content."

\* VoiceWorker.run, except clause: the string emitted through error_occurred
VoiceWorker_except(e) ==
    IF "401" \in e \/ "API key" \in e
    THEN "Error: Invalid ElevenLabs API Key."
    ELSE IF "quota" \in lower(e)
    THEN "Error: ElevenLabs Quota Exceeded."
    ELSE "Error: Audio generation failed."

\* QuizWorker.run, except clause: the string emitted through error_occurred
QuizWorker_except(e) ==
    IF "RESOURCE_EXHAUSTED" \in e \/ "429" \in e
    THEN "Error: Gemini Quota Exceeded."
    ELSE "Error: Failed to generate quiz."

AIWorkerRaises ==
    /\ reported' = [worker |-> "AIWorker", message |-> AIWorker_except(err)]
    /\ UNCHANGED <<coordinator_vars, random_vars, gesture_vars, voice_limit,
                   startup_vars, err>>

VoiceWorkerRaises ==
    /\ reported' = [worker |-> "VoiceWorker",
                    message |-> VoiceWorker_except(err)]
    /\ UNCHANGED <<coordinator_vars, random_vars, gesture_vars, voice_limit,
                   startup_vars, err>>

QuizWorkerRaises ==
    /\ reported' = [worker |-> "QuizWorker", message |-> QuizWorker_except(err)]
    /\ UNCHANGED <<coordinator_vars, random_vars, gesture_vars, voice_limit,
                   startup_vars, err>>

NextErrors == AIWorkerRaises \/ VoiceWorkerRaises \/ QuizWorkerRaises

\* any exception text, caught by any of the three workers
InitErrors ==
    /\ InitCoordinator
    /\ prompts_on_disk = TRUE
    /\ random_state = [r \in Runs |-> 0]
    /\ sounds = [r \in Runs |-> [win |-> NumFeedback, lose |-> NumFeedback]]
    /\ selected = [r \in Runs |-> NoSelection]
    /\ is_running = TRUE
    /\ current_time = StartTime
    /\ last_detect_time = 0
    /\ frame = NoImage
    /\ emitted = <<>>
    /\ voice_limit = MaxDoubtVoice
    /\ StartupWorkerCreated
    /\ err \in SUBSET Fragments
    /\ reported = NoReport

SpecErrors == InitErrors /\ [][NextErrors]_vars

\* ------------------------------------------------------------ properties
\* ListenWorker threads whose run() has not returned
ListenersAlive == (IF ListenerAlive(Cur) THEN 1 ELSE 0) + listen_orphans

\* C1: no two ListenWorker threads run concurrently: a ListenWorker is started
\* only after every ListenWorker started before it has left run().
C1_OneListenWorker == ListenersAlive <= 1

\* C2: playback and listening are never active at the same instant: the mixer
\* is not playing while a ListenWorker thread has not left run().
C2_PlaybackExcludesListening == ~(mixer = "playing" /\ ListenersAlive >= 1)

\* a step in which close_doubt_session ends the open doubt session and the
\* student stays with the lesson
DoubtExit ==
    /\ pre_doubt # "none" /\ pre_doubt' = "none"
    /\ is_learning_mode /\ ~is_quiz_mode
    /\ phase' = "running" /\ is_learning_mode' /\ ~is_quiz_mode'

\* C3: leaving the doubt session restores the playback state that held before
\* entry: if the lesson audio was playing when the session was opened, the
\* same lesson audio is playing again once close_doubt_session has run.
C3_PlaybackRestoredOnExit ==
    [][(DoubtExit /\ pre_doubt = "playing")
          => (mixer' = "playing" /\ mixer_file' = "output")]_vars

\* C4: a doubt session entered while the lesson audio was playing has paused
\* the mixer exactly once on entry and unpauses it exactly once on exit.
C4_PauseOnceResumeOnce ==
    [][(DoubtExit /\ pre_doubt = "playing")
          => (entry_pauses = 1 /\ exit_unpauses' = 1)]_vars

\* the lesson view is the current screen and shows a generated lesson
OnLessonScreen ==
    /\ phase = "running"
    /\ result_container /\ content_widget
    /\ is_learning_mode /\ ~is_quiz_mode
    /\ worker # "running"

\* C5: is_listening_active becomes true only while the lesson view is the
\* current screen with generated content: never in quiz mode, never on the
\* setup form, never while the lesson is being generated.
C5_DoubtOnlyFromLesson ==
    [][(~is_listening_active /\ is_listening_active') => OnLessonScreen]_vars

\* check_answer has run for question i of the quiz in quiz_data
Answered(i) == \E k \in 1..Len(picks) : picks[k][1] = i

\* C6: quiz progression is strictly sequential: current_question_index
\* changes only to 0 with a new quiz, or by exactly 1 after check_answer has
\* run for the question it leaves; no question is skipped.
C6_SequentialProgress ==
    [][(current_question_index' # current_question_index /\ phase' = "running")
          => \/ current_question_index' = 0 /\ picks' = <<>>
             \/ /\ current_question_index' = current_question_index + 1
                /\ Answered(current_question_index)]_vars

\* the questions of quiz_data for which the option index passed to
\* check_answer equalled the question's 'answer' index
CorrectQuestions ==
    {i \in 0..(Len(quiz_data) - 1) :
        \E k \in 1..Len(picks) : picks[k] = <<i, quiz_data[i + 1]>>}

\* show_results has displayed the score of the quiz in quiz_data
ResultsShown ==
    /\ phase = "running"
    /\ quiz_result_container
    /\ current_question_index >= Len(quiz_data)

\* C7: when show_results displays the score, score is the number of questions
\* of the quiz answered with their recorded 'answer' index; score changes only
\* by on_quiz_ready resetting it to 0 and by check_answer adding 1.
C7_ScoreCountsCorrectAnswers ==
    /\ [](ResultsShown => score = Cardinality(CorrectQuestions))
    /\ [][score' # score
            => \/ score' = 0 /\ picks' = <<>>
               \/ score' = score + 1 /\ Len(picks') = Len(picks) + 1]_vars

\* C7 witness: the results of a two-question quiz, one answer right, one wrong
C7_Witness ==
    /\ ResultsShown
    /\ Len(quiz_data) = 2 /\ Len(picks) = 2
    /\ score = 1

\* the QuizWorker in self.quiz_worker ends with error_occurred
QuizWorkerFails == quiz_worker = "running" /\ quiz_worker' = "failed"

\* C8: when a worker fails, its error string is rendered inline on the current
\* screen and the mode is left as it was; here for the QuizWorker, whose
\* screen is the quiz setup form with quiz_loading_lbl.
C8_FailureRenderedInline ==
    [][QuizWorkerFails
          => /\ quiz_loading_lbl' = "Error: Failed to generate quiz."
             /\ UNCHANGED <<is_learning_mode, is_quiz_mode, is_listening_active,
                            quiz_setup_widget>>]_vars

\* C9: cancellation is cooperative: no worker thread is ever ended by
\* QThread.terminate().
C9_NoForcedTermination == worker # "terminated" /\ quiz_worker # "terminated"

\* QuizWorker threads whose run() has not returned
QuizzesRunning == (IF quiz_worker = "running" THEN 1 ELSE 0) + quiz_orphans

\* Start Learning pressed with every field filled in
AcceptedStart ==
    /\ start_btn /\ start_btn_enabled
    /\ \E name \in Names \ {""}, topic \in Topics \ {""} :
          Do(on_start_clicked(Cur, name, topic))

\* C10: every accepted click issues a fresh request: an accepted
\* on_start_clicked leaves a newly started lesson AIWorker running and none of
\* the earlier lesson on screen, and on_start_quiz_clicked starts exactly one
\* more QuizWorker, which is the one self.quiz_worker then holds.
C10_FreshRequestPerClick ==
    [][/\ AcceptedStart
            => /\ worker' = "running"
               /\ result_area' = "placeholder" /\ is_first_chunk'
       /\ ClickStartQuiz
            => /\ quiz_worker' = "running"
               /\ QuizzesRunning' = QuizzesRunning + 1]_vars

\* C10 witness: the topic whose lesson and quiz were generated earlier in the
\* session is requested again, and a new AIWorker is running for it
C10_Witness ==
    /\ phase = "running"
    /\ worker = "running" /\ current_topic = Topic
    /\ quiz_worker = "finished"

\* the signals of one run whose name is among names
SignalCount(signals, names) ==
    Cardinality({k \in 1..Len(signals) : signals[k].name \in names})

\* C14: two runs started with the same seed and driven by the same events
\* have selected the same opening phrase, closing phrase and win or lose
\* sound after every step.
C14_SameSeedSameSelection == selected[1] = selected[2]

\* C11: every run of a request worker that ends has emitted exactly one
\* outcome signal (AIWorker: text_received; QuizWorker: data_received or
\* error_occurred; VoiceWorker: finished or error_occurred), and an AIWorker
\* additionally exactly one 'finished', after the outcome.
C11_OneOutcomePerRun ==
    [][/\ \A reply \in AIReplies :
            (LessonWorkerEnds(reply) \/ DoubtWorkerEnds(reply))
               => LET run == AIWorker_run(reply, "text")
                  IN  /\ SignalCount(run, {"text_received"}) = 1
                      /\ SignalCount(run, {"finished"}) = 1
                      /\ run[Len(run)].name = "finished"
       /\ \A reply \in QuizReplies :
            QuizWorkerEnds(reply)
               => SignalCount(QuizWorker_run(reply),
                              {"data_received", "error_occurred"}) = 1
       /\ \A kind \in VoiceKinds, reply \in VoiceReplies :
            VoiceWorkerEnds(kind, reply)
               => SignalCount(VoiceWorker_run(reply),
                              {"finished", "error_occurred"}) = 1]_vars

\* the prompt file is loaded in the mixer and has not reached its end
PromptUnfinished(file) == mixer_file = file /\ mixer # "idle"

\* C12: doubt-session transitions wait for the prompt audio to settle: the
\* opening timer runs start_doubt_session only after the opening prompt has
\* finished, and the close timer runs close_doubt_session only after the
\* closing prompt has finished.
C12_PromptSettlesFirst ==
    [][/\ (OpeningTimerTick /\ ~opening_timer')
            => ~PromptUnfinished("opening")
       /\ (CloseTimerTick /\ ~close_timer')
            => ~PromptUnfinished("closing")]_vars

\* the primary screens that are visible
VisibleScreens ==
    {scr \in {"setup form", "lesson view", "quiz setup", "quiz question",
              "quiz result"} :
        CASE scr = "setup form" -> card_frame
          [] scr = "lesson view" -> isVisible(Cur, "content_widget")
          [] scr = "quiz setup" -> isVisible(Cur, "quiz_setup_widget")
          [] scr = "quiz question" -> isVisible(Cur, "quiz_active_container")
          [] scr = "quiz result" -> isVisible(Cur, "quiz_result_container")}

\* C13: after loading exactly one primary screen is visible, and a quiz
\* screen is visible only while is_quiz_mode is true.
C13_OneScreen ==
    phase = "running"
       => /\ Cardinality(VisibleScreens) = 1
          /\ VisibleScreens \cap {"quiz setup", "quiz question", "quiz result"}
                # {} => is_quiz_mode
\* the frame the last pass saw shows one of the three gesture patterns
Recognised == frame.img /\ Pattern(frame.fingers) # ""

\* C15: any two consecutive gesture_signal emissions are more than the
\* cooldown of 1.0 s apart, and a pass whose frame shows none of the three
\* patterns emits nothing and leaves the cooldown where it was.
C15_Debounced ==
    [][ /\ \A k \in 1..(Len(emitted') - 1) :
              emitted'[k + 1][1] - emitted'[k][1] > cooldown
        /\ ~Recognised' => UNCHANGED <<emitted, last_detect_time>> ]_vars

C15_Witness ==
    /\ Len(emitted) >= 2
    /\ frame.img /\ frame.fingers # <<>> /\ ~Recognised
    /\ current_time > emitted[Len(emitted)][1] + cooldown
    /\ last_detect_time = emitted[Len(emitted)][1]

\* C16: when check_audio_finished_and_listen finds the answer audio ended
\* while is_listening_active, the step leaves a ListenWorker running that has
\* not been told to stop, so that listening goes on.
C16_ListeningResumes ==
    [][ (ResumeTimerTick /\ mixer = "idle" /\ is_listening_active)
            => listen_worker' = "running" ]_vars

\* an answer to an earlier question is still being generated, synthesised or
\* played
AnswerPending ==
    \/ doubt_ai > 0
    \/ voice["doubt"] > 0
    \/ mixer_file = "doubt" /\ mixer # "idle"

\* C17: a question is dispatched to a doubt AIWorker only when no answer to
\* an earlier question is still being generated, synthesised or played: the
\* ListenWorker that handle_parsed_doubt stopped delivers no further text.
C17_OneQuestionAtATime ==
    [][ doubt_ai' > doubt_ai => ~AnswerPending ]_vars

\* the doubt session is closed, or something is left that brings it back to
\* listening or closes it: a ListenWorker that keeps listening, a polling
\* timer, a doubt AIWorker or a VoiceWorker of the session
SessionMoves ==
    \/ ~doubt_widget
    \/ listen_worker = "running"
    \/ opening_timer \/ resume_timer \/ close_timer
    \/ doubt_ai > 0
    \/ \E kind \in VoiceKinds \ {"lesson"} : voice[kind] > 0

\* C18: when the VoiceWorker of a doubt answer, of the opening prompt or of
\* the closing prompt emits error_occurred instead of 'finished', the session
\* is closed or something is left that returns it to listening or closes it.
C18_VoiceErrorRecovers ==
    [][ \A kind \in VoiceKinds \ {"lesson"} :
            VoiceWorkerEnds(kind, "raises") => SessionMoves' ]_vars

\* C19: whenever the quiz setup card is shown and no QuizWorker is running,
\* the Start Quiz button is enabled and the 'Generating Questions...' message
\* is cleared.
C19_SetupCardReady ==
    (phase = "running" /\ isVisible(Cur, "quiz_setup_widget")
       /\ QuizzesRunning = 0)
        => (start_quiz_btn_enabled /\ quiz_loading_lbl = "")

\* the steps that run show_question or check_answer
ReadsQuestion ==
    \/ QuizWorkerDone \/ QuizOrphanDone
    \/ QuizWaitTimerTick \/ SingleShotFires
    \/ ClickOption

\* C20: no step that runs show_question or check_answer reads
\* quiz_data[current_question_index] outside 0 <= index < len(quiz_data): the
\* read raises no IndexError, whatever list the QuizWorker delivered.
C20_IndexInRange == [][ ReadsQuestion => phase' # "crashed" ]_vars

\* a doubt session is opening: its opening prompt plays, watched by the
\* polling timer, or is being synthesised
SessionOpening == opening_timer \/ voice["opening"] > 0

\* C21: while a doubt session is opening and is_listening_active is not yet
\* set, a gesture or an Ask Doubt click does not act as a new open request:
\* it leaves the music channel, the opening timer, the VoiceWorkers and the
\* pause bookkeeping of the entry as they are.
C21_OpenedOnce ==
    [][ ((Gesture \/ ClickDoubt) /\ SessionOpening /\ ~is_listening_active)
            => UNCHANGED <<mixer, mixer_file, opening_timer, voice,
                           is_audio_paused, entry_pauses, pre_doubt>> ]_vars

\* on_voice_clicked takes the branch that plays sounds/output.mp3 as it is
ReplaysFile ==
    /\ ~is_audio_generating /\ ~get_busy(Cur) /\ ~is_audio_paused
    /\ result_area # ""
    /\ last_generated_audio_text = result_area

\* C22: whenever on_voice_clicked plays the existing sounds/output.mp3
\* instead of starting a VoiceWorker, the text shown in the lesson area is the
\* text that was given to the VoiceWorker which wrote the file.
C22_ReplayMatchesText ==
    [][ (ClickVoice /\ ReplaysFile) => output_mp3 = result_area ]_vars

\* C23: at most one VoiceWorker is in flight at any time, and
\* is_audio_generating is true exactly while a lesson VoiceWorker started by
\* on_voice_clicked has not yet reported 'finished' or an error.
C23_OneVoiceWorker ==
    phase = "running" =>
        /\ VoiceWorkersRunning <= 1
        /\ is_audio_generating <=> voice["lesson"] > 0

\* the user has left the lesson view: the setup form or a quiz screen is shown
LeftLesson == phase = "running" /\ (~result_container \/ is_quiz_mode)

\* C24: after Back has returned to the setup form or Quiz Time has entered
\* the quiz, a VoiceWorker that was in flight and completes does not start
\* lesson or doubt audio, and no ListenWorker is started.
C24_LeavingSilences ==
    [][ (VoiceWorkerDone /\ LeftLesson)
            => /\ ~(mixer' = "playing" /\ mixer_file' \in {"output", "doubt"})
               /\ listen_worker' # "running" ]_vars

RejectedStart ==
    /\ start_btn /\ start_btn_enabled
    /\ \E name \in Names, topic \in Topics :
          /\ name = "" \/ topic = ""
          /\ Do(on_start_clicked(Cur, name, topic))

\* C26: a Start click with an empty field starts no AIWorker, leaves
\* is_learning_mode, current_topic and the screen shown as they are, leaves
\* the Start button enabled, and shows the 'Please fill in all fields.'
\* status.
C26_IncompleteFormRejected ==
    [][ RejectedStart =>
          /\ status_label'
          /\ start_btn_enabled'
          /\ VisibleScreens' = VisibleScreens
          /\ UNCHANGED <<worker, is_learning_mode, current_topic,
                         result_area, is_first_chunk>> ]_vars

C26_Witness ==
    /\ phase = "running"
    /\ status_label
    /\ VisibleScreens = {"setup form"}
    /\ start_btn_enabled
    /\ worker = "none" /\ current_topic = ""

\* C27: the Start Quiz button is never enabled while a QuizWorker started
\* earlier has not yet delivered data_received or error_occurred, so that
\* self.quiz_worker is never replaced while it runs.
C27_OneQuizWorker ==
    phase = "running" =>
        /\ start_quiz_btn_enabled => QuizzesRunning = 0
        /\ quiz_orphans = 0

\* C28: every run of StartupWorker emits 'finished' at most once, and
\* eventually has emitted it once and returned, with the loading screen
\* replaced by the setup form, whatever happened to each audio asset and to
\* the speech client.
C28_StartupCompletes ==
    /\ [](startup_emitted <= 1)
    /\ <>(/\ startup_pc = "done" /\ startup_emitted = 1
          /\ phase = "running" /\ card_frame /\ start_btn)

C28_Witness ==
    /\ startup_pc = "done" /\ startup_emitted = 1
    /\ startup_task = NumTasks /\ startup_failed > 0
    /\ phase = "running" /\ card_frame

\* the three classes of a reported failure
QuotaMessages == {"Error: Gemini API Quota Exceeded. Try again later.",
                  "Error: ElevenLabs Quota Exceeded.",
                  "Error: Gemini Quota Exceeded."}

KeyMessages == {"Error: Invalid Gemini API Key.",
                "Error: Invalid ElevenLabs API Key."}

GenericMessages == {"Error: Failed to generate content.",
                    "Error: Audio generation failed.",
                    "Error: Failed to generate quiz."}

\* C29: AIWorker reports the quota message when the exception text contains
\* 'RESOURCE_EXHAUSTED' or '429', otherwise the invalid-key message when it
\* contains 'API key' or '401', otherwise the generic message; VoiceWorker
\* reports invalid-key when the text contains '401' or 'API key', otherwise
\* quota when it contains 'quota' in any case, otherwise generic; and every
\* failure is reported as exactly one of the three classes.
C29_ErrorPrecedence ==
    LET SaysQuotaCode == "RESOURCE_EXHAUSTED" \in err \/ "429" \in err
        SaysKey == "API key" \in err \/ "401" \in err
        SaysQuotaWord == err \cap {"quota", "Quota", "QUOTA"} # {}
    IN
    /\ reported.worker = "AIWorker" =>
          /\ reported.message \in QuotaMessages <=> SaysQuotaCode
          /\ reported.message \in KeyMessages <=> (~SaysQuotaCode /\ SaysKey)
          /\ reported.message \in GenericMessages
                <=> (~SaysQuotaCode /\ ~SaysKey)
    /\ reported.worker = "VoiceWorker" =>
          /\ reported.message \in KeyMessages <=> SaysKey
          /\ reported.message \in QuotaMessages <=> (~SaysKey /\ SaysQuotaWord)
          /\ reported.message \in GenericMessages
                <=> (~SaysKey /\ ~SaysQuotaWord)
    /\ reported.worker # "none" =>
          Cardinality({class \in {QuotaMessages, KeyMessages, GenericMessages} :
                         reported.message \in class}) = 1

\* an exception text naming both a quota code and a key error, caught by
\* AIWorker
C29_Witness ==
    /\ reported.worker = "AIWorker"
    /\ "429" \in err
    /\ "401" \in err
    /\ reported.message \in QuotaMessages
====
